---- MODULE Spec2Model ----
(***************************************************************************)
(* A model of wac_monthly_report.py: the batch pipeline                    *)
(*   main: setup -> collect_data -> clean_records -> format_report         *)
(*         -> save_report                                                  *)
(* over a workbook of worksheets.                                          *)
(*                                                                         *)
(* Text is a sequence of one-character strings, so that strip, title,      *)
(* replace, the regular expression [A-Z][a-z] and the '.1' / ',' substring *)
(* tests are computed character by character.  A calendar date is its day  *)
(* number (2017-01-01 is day 1); a pandas Timestamp is day * TicksPerDay   *)
(* plus the time of day in ticks.  The 'Contact Date' column is of object  *)
(* dtype: its cells are null, datetime objects or strings.                 *)
(***************************************************************************)
EXTENDS Integers, Sequences, FiniteSets, TLC

VARIABLES
    pc,          \* position of main: start, setup, collected, cleaned,
                 \* formatted, saved, exited (sys.exit), fault (exception);
                 \* text0..text2 in SpecText
    nFiles,      \* number of ./data/*.xlsx files
    workbook,    \* the contact file: a sequence of worksheets
    start_date,  \* InteractionData.start_date (day number)
    end_date,    \* InteractionData.end_date (day number)
    columns,     \* self.data.columns
    data,        \* self.data rows
    log,         \* records of level WARNING and above (the log file)
    stages,      \* the stages main has entered, in order
    exitStatus,  \* process exit status, -1 while running
    exc,         \* the uncaught exception, "" if none
    outFile      \* the files written to ./output

vars == <<pc, nFiles, workbook, start_date, end_date, columns, data, log,
          stages, exitStatus, exc, outFile>>

(***************************************************************************)
(* Bounds of the model.                                                    *)
(***************************************************************************)
MaxFiles == 2
MaxRows == 3
MaxPieces == 3
MaxSheets == 3
TicksPerDay == 2

BaseYear == 2017

(***************************************************************************)
(* Characters and Python's str methods.                                    *)
(***************************************************************************)
Lowers == <<"a","b","c","d","e","f","g","h","i","j","k","l","m",
            "n","o","p","q","r","s","t","u","v","w","x","y","z">>
Uppers == <<"A","B","C","D","E","F","G","H","I","J","K","L","M",
            "N","O","P","Q","R","S","T","U","V","W","X","Y","Z">>
Digits == <<"0","1","2","3","4","5","6","7","8","9">>
Whitespace == {" ", "\t", "\n"}

IndexOf(c, seq) ==
    IF \E i \in 1..Len(seq) : seq[i] = c
    THEN CHOOSE i \in 1..Len(seq) : seq[i] = c
    ELSE 0

LowerSet == {Lowers[i] : i \in DOMAIN Lowers}
UpperSet == {Uppers[i] : i \in DOMAIN Uppers}
DigitSet == {Digits[i] : i \in DOMAIN Digits}
IsLower(c) == c \in LowerSet
IsUpper(c) == c \in UpperSet
IsCased(c) == IsLower(c) \/ IsUpper(c)
IsDigit(c) == c \in DigitSet
ToUpper(c) == IF IsLower(c) THEN Uppers[IndexOf(c, Lowers)] ELSE c
ToLower(c) == IF IsUpper(c) THEN Lowers[IndexOf(c, Uppers)] ELSE c
DigitVal(c) == IndexOf(c, Digits) - 1

SetMin(S) == CHOOSE x \in S : \A y \in S : x <= y
SetMax(S) == CHOOSE x \in S : \A y \in S : x >= y

\* Variant: at most one whitespace character removed at either end.
StripOnce(s) ==
    LET a == IF s # <<>> /\ s[1] \in Whitespace THEN Tail(s) ELSE s
    IN  IF a # <<>> /\ a[Len(a)] \in Whitespace
        THEN SubSeq(a, 1, Len(a) - 1) ELSE a

\* str.strip(): leading and trailing whitespace removed.
Strip(s) ==
    LET keep == {i \in 1..Len(s) : s[i] \notin Whitespace}
    IN  IF keep = {} THEN <<>> ELSE SubSeq(s, SetMin(keep), SetMax(keep))

\* str.title(): a cased character is upper-cased when the character before
\* it is not cased, lower-cased when it is.
Title(s) ==
    [i \in 1..Len(s) |->
        IF ~IsCased(s[i]) THEN s[i]
        ELSE IF i > 1 /\ IsCased(s[i-1]) THEN ToLower(s[i])
        ELSE ToUpper(s[i])]

LowerStr(s) == [i \in 1..Len(s) |-> ToLower(s[i])]

\* sub in s
Contains(s, sub) ==
    \E i \in 1..(Len(s) - Len(sub) + 1) : SubSeq(s, i, i + Len(sub) - 1) = sub

\* str.replace(old, new): the non-overlapping occurrences, left to right.
RECURSIVE Replace(_, _, _)
Replace(s, old, new) ==
    IF Len(s) < Len(old) THEN s
    ELSE IF SubSeq(s, 1, Len(old)) = old
         THEN new \o Replace(SubSeq(s, Len(old) + 1, Len(s)), old, new)
         ELSE <<s[1]>> \o Replace(Tail(s), old, new)

\* A null (NaN) cell of a text column.
NaN == <<"NaN">>
\* Series.fillna('')
FillNa(v) == IF v = NaN THEN <<>> ELSE v

(***************************************************************************)
(* Names used by the program.                                              *)
(***************************************************************************)
ContactDate == <<"C","o","n","t","a","c","t"," ","D","a","t","e">>
StudentName == <<"S","t","u","d","e","n","t"," ","N","a","m","e">>
AssignedFellow == <<"A","s","s","i","g","n","e","d"," ","t","o"," ","W","r","i","t","i","n","g"," ","F","e","l","l","o","w">>
CorrMethod == <<"C","o","r","r","e","s","p","o","n","d","e","n","c","e"," ","M","e","t","h","o","d">>
CourseLong == <<"C","o","u","r","s","e"," ","(","o","n","l","y"," ","t","h","e"," ","a","b","b","r","e","v","i","a","t","e","d"," ","f","o","r","m",","," ","e",".","g","."," ","P","S","Y","2","4","0",")">>
ContactInfo == <<"C","o","n","t","a","c","t"," ","I","n","f","o">>
ProfessorLong == <<"P","r","o","f","e","s","s","o","r"," ","(","o","n","l","y"," ","l","a","s","t"," ","n","a","m","e",")">>
Major == <<"M","a","j","o","r">>
Topic == <<"C","o","n","t","e","n","t","/","T","o","p","i","c"," ","o","f"," ","t","h","e"," ","E","x","c","h","a","n","g","e">>
Actions == <<"A","c","t","i","o","n","s"," ","a","n","d","/","o","r"," ","F","o","l","l","o","w"," ","u","p">>
WritingFellow == <<"W","r","i","t","i","n","g"," ","F","e","l","l","o","w">>
TypeOfContact == <<"T","y","p","e"," ","o","f"," ","c","o","n","t","a","c","t">>
Course == <<"C","o","u","r","s","e">>
Student == <<"S","t","u","d","e","n","t">>
StudentContactInfo == <<"S","t","u","d","e","n","t"," ","C","o","n","t","a","c","t"," ","I","n","f","o">>
Professor == <<"P","r","o","f","e","s","s","o","r">>
SameAsAbove == <<"s","a","m","e"," ","a","s"," ","a","b","o","v","e">>
Dot1 == <<".","1">>
Comma == <<",">>
ID == <<"I","D">>
ReportStem == <<"w","a","c","_","m","o","n","t","h","l","y","_","r","e","p","o","r","t","-">>
ExtXlsx == <<".","x","l","s","x">>
ExtJson == <<".","j","s","o","n">>

(***************************************************************************)
(* Calendar dates and their textual forms.                                 *)
(***************************************************************************)
DaysInMonth == <<31, 28, 31, 30, 31, 30, 31, 31, 30, 31, 30, 31>>
MonthAbbr == << <<"j","a","n">>, <<"f","e","b">>, <<"m","a","r">>,
                <<"a","p","r">>, <<"m","a","y">>, <<"j","u","n">>,
                <<"j","u","l">>, <<"a","u","g">>, <<"s","e","p">>,
                <<"o","c","t">>, <<"n","o","v">>, <<"d","e","c">> >>

RECURSIVE DaysBefore(_)
DaysBefore(m) == IF m <= 1 THEN 0 ELSE DaysBefore(m - 1) + DaysInMonth[m - 1]

\* The day number of year-month-day; no leap year lies in the modelled range.
Ordinal(y, m, d) == (y - BaseYear) * 365 + DaysBefore(m) + d
ValidYMD(y, m, d) == m \in 1..12 /\ d >= 1 /\ d <= DaysInMonth[m]

AllDigits(s) == \A i \in 1..Len(s) : IsDigit(s[i])
RECURSIVE Number(_)
Number(s) == IF s = <<>> THEN 0
             ELSE 10 * Number(SubSeq(s, 1, Len(s) - 1)) + DigitVal(s[Len(s)])

\* 'YYYY-MM-DD'
IsISO(s) ==
    /\ Len(s) = 10
    /\ s[5] = "-" /\ s[8] = "-"
    /\ AllDigits(SubSeq(s, 1, 4)) /\ AllDigits(SubSeq(s, 6, 7))
    /\ AllDigits(SubSeq(s, 9, 10))
    /\ ValidYMD(Number(SubSeq(s, 1, 4)), Number(SubSeq(s, 6, 7)),
                Number(SubSeq(s, 9, 10)))
ParseISO(s) ==
    Ordinal(Number(SubSeq(s, 1, 4)), Number(SubSeq(s, 6, 7)),
            Number(SubSeq(s, 9, 10)))

\* 'Mon DD YYYY', the month abbreviation in any case
IsMonDY(s) ==
    /\ Len(s) = 11
    /\ IndexOf(LowerStr(SubSeq(s, 1, 3)), MonthAbbr) # 0
    /\ s[4] = " " /\ s[7] = " "
    /\ AllDigits(SubSeq(s, 5, 6)) /\ AllDigits(SubSeq(s, 8, 11))
    /\ ValidYMD(Number(SubSeq(s, 8, 11)),
                IndexOf(LowerStr(SubSeq(s, 1, 3)), MonthAbbr),
                Number(SubSeq(s, 5, 6)))
ParseMonDY(s) ==
    Ordinal(Number(SubSeq(s, 8, 11)),
            IndexOf(LowerStr(SubSeq(s, 1, 3)), MonthAbbr),
            Number(SubSeq(s, 5, 6)))

\* datetime.datetime.strptime(s, '%Y-%m-%d').date()
Strptime(s) == ParseISO(s)

\* str(date): 'YYYY-MM-DD', for the days of BaseYear
MonthOf(day) == SetMin({m \in 1..12 : DaysBefore(m) + DaysInMonth[m] >= day})
TwoDigits(n) == <<Digits[(n \div 10) + 1], Digits[(n % 10) + 1]>>
FormatISO(day) ==
    <<"2","0","1","7","-">> \o TwoDigits(MonthOf(day)) \o <<"-">>
        \o TwoDigits(day - DaysBefore(MonthOf(day)))

(***************************************************************************)
(* Cells of the 'Contact Date' column, worksheets and the collected table. *)
(***************************************************************************)
NullCell == [kind |-> "null", v |-> 0, text |-> <<>>]
DateTime(day, tod) ==
    [kind |-> "datetime", v |-> day * TicksPerDay + tod, text |-> <<>>]
Text(s) == [kind |-> "str", v |-> 0, text |-> s]
DateOnly(day) == [kind |-> "date", v |-> day, text |-> <<>>]

Range(f) == {f[i] : i \in DOMAIN f}
HasCol(cols, c) == c \in Range(cols)

\* The columns every student worksheet is expected to have.
StandardHeader ==
    <<ContactDate, AssignedFellow, CorrMethod, CourseLong, ContactInfo,
      ProfessorLong, Major, Topic, Actions>>

\* The ten columns of the report, in order.
ReportColumns ==
    <<ContactDate, Student, StudentContactInfo, Major, Course, Professor,
      WritingFellow, TypeOfContact, Topic, Actions>>

(***************************************************************************)
(* setup                                                                   *)
(***************************************************************************)
Critical(msg) == [level |-> "CRITICAL", msg |-> msg, index |-> -1, tag |-> <<>>]
Warning(msg, index, tag) ==
    [level |-> "WARNING", msg |-> msg, index |-> index, tag |-> tag]

\* sys.exit() without an argument: SystemExit(None), exit status 0.
SysExitStatus == 0
\* An uncaught exception ends the interpreter with status 1.
UncaughtStatus == 1

Raise(e) ==
    /\ pc' = "fault"
    /\ exc' = e
    /\ exitStatus' = UncaughtStatus

setup ==
    /\ pc = "start"
    /\ stages' = Append(stages, "setup")
    /\ IF nFiles = 1
       THEN /\ pc' = "setup"
            /\ UNCHANGED <<log, exitStatus>>
       ELSE /\ pc' = "exited"
            /\ exitStatus' = SysExitStatus
            /\ log' = Append(log,
                  IF nFiles = 0
                  THEN Critical("WAC contact history file is missing from the data directory")
                  ELSE Critical("Multiple WAC contact history files are in the data directory"))
    /\ UNCHANGED <<nFiles, workbook, start_date, end_date, columns, data,
                   exc, outFile>>

(***************************************************************************)
(* InteractionData.collect_data                                            *)
(***************************************************************************)
\* Variant: every worksheet is read.
AllSheets(wb) == wb

\* sheets = [x for x in sheets if ',' in x]
StudentSheets(wb) == SelectSeq(wb, LAMBDA sh : Contains(sh.name, Comma))

\* df = pd.read_excel(...); df['Student Name'] = sheet.  The frame read from
\* a worksheet has its own index 0, 1, ...
TagRows(sh) ==
    [i \in 1..Len(sh.rows) |->
        [idx |-> i - 1, date |-> sh.rows[i].date, name |-> sh.name,
         fellow |-> sh.rows[i].fellow, method |-> sh.rows[i].method,
         topic |-> sh.rows[i].topic, actions |-> sh.rows[i].actions]]
TagColumns(sh) ==
    IF HasCol(sh.header, StudentName) THEN sh.header
    ELSE Append(sh.header, StudentName)

\* DataFrame.append(df, ignore_index=True): rows below, the union of the
\* columns, the index renumbered from 0.
Reindex(rows) == [i \in 1..Len(rows) |-> [rows[i] EXCEPT !.idx = i - 1]]
\* Variant: append without ignore_index, each frame keeping its own index.
AppendRowsKeepIndex(rows, df) == rows \o df
AppendRows(rows, df) == Reindex(rows \o df)
AppendColumns(cols, dfcols) ==
    cols \o SelectSeq(dfcols, LAMBDA c : ~HasCol(cols, c))

RECURSIVE CollectRows(_, _)
CollectRows(sheets, acc) ==
    IF sheets = <<>> THEN acc
    ELSE CollectRows(Tail(sheets), AppendRows(acc, TagRows(Head(sheets))))
RECURSIVE CollectColumns(_, _)
CollectColumns(sheets, acc) ==
    IF sheets = <<>> THEN acc
    ELSE CollectColumns(Tail(sheets),
                        AppendColumns(acc, TagColumns(Head(sheets))))

collect_data ==
    /\ pc = "setup"
    /\ stages' = Append(stages, "collect_data")
    /\ data' = CollectRows(StudentSheets(workbook), data)
    /\ columns' = CollectColumns(StudentSheets(workbook), columns)
    /\ pc' = "collected"
    /\ UNCHANGED <<nFiles, workbook, start_date, end_date, log, exitStatus,
                   exc, outFile>>

(***************************************************************************)
(* InteractionData.clean_records                                           *)
(***************************************************************************)
\* Series.str.match(r'[A-Z][a-z]', na=False): re.match at the start of a
\* string cell; a cell that is not a string gives False.
MatchStringPattern(cell) ==
    /\ cell.kind = "str"
    /\ Len(cell.text) >= 2
    /\ IsUpper(cell.text[1])
    /\ IsLower(cell.text[2])

\* The date parser behind pd.to_datetime, on the textual forms modelled.
IsParseable(s) == IsISO(s) \/ IsMonDY(s)
ParseDate(s) == IF IsISO(s) THEN ParseISO(s) ELSE ParseMonDY(s)

\* pd.to_datetime on one cell: a datetime is kept, a string is parsed to
\* midnight of its date.
ToDatetime(cell) ==
    IF cell.kind = "str" THEN DateTime(ParseDate(cell.text), 0) ELSE cell
ToDatetimeRaises(rows) ==
    \E i \in 1..Len(rows) :
        rows[i].date.kind = "str" /\ ~IsParseable(rows[i].date.text)

\* self.data[self.data['Contact Date'].isnull()]
NullDates(rows) == SelectSeq(rows, LAMBDA r : r.date.kind = "null")
\* self.data[pd.notnull(self.data['Contact Date'])]
NotNullDates(rows) == SelectSeq(rows, LAMBDA r : r.date.kind # "null")
StringDates(rows) == SelectSeq(rows, LAMBDA r : MatchStringPattern(r.date))
\* self.data.drop(index, axis='rows') for every row of string_dates
DropStringDates(rows) ==
    SelectSeq(rows, LAMBDA r : ~MatchStringPattern(r.date))

\* Variant: the warning names the position among the null rows.
NullWarningsByPosition(rows) ==
    [i \in 1..Len(NullDates(rows)) |->
        Warning("Empty contact date in record",
                i - 1, NullDates(rows)[i].name)]
NullWarnings(rows) ==
    [i \in 1..Len(NullDates(rows)) |->
        Warning("Empty contact date in record",
                NullDates(rows)[i].idx, NullDates(rows)[i].name)]
StringWarnings(rows) ==
    [i \in 1..Len(StringDates(rows)) |->
        Warning("Invalid information in record",
                StringDates(rows)[i].idx, StringDates(rows)[i].name)]

ConvertDates(rows) ==
    [i \in 1..Len(rows) |-> [rows[i] EXCEPT !.date = ToDatetime(@)]]

\* .str.strip().str.title()
StripTitle(v) == IF v = NaN THEN NaN ELSE Title(Strip(v))
\* .str.title().str.strip()
TitleStrip(v) == IF v = NaN THEN NaN ELSE Strip(Title(v))
\* .str.strip().str.replace('same as above', '')
StripReplace(v) ==
    IF v = NaN THEN NaN ELSE Replace(Strip(v), SameAsAbove, <<>>)

NormalizeName(rows) ==
    [i \in 1..Len(rows) |-> [rows[i] EXCEPT !.name = StripTitle(@)]]
FillText(rows) ==
    [i \in 1..Len(rows) |->
        [rows[i] EXCEPT !.topic = FillNa(@), !.actions = FillNa(@)]]
NormalizeTopic(rows) ==
    [i \in 1..Len(rows) |-> [rows[i] EXCEPT !.topic = StripReplace(@)]]
NormalizeFellow(rows) ==
    [i \in 1..Len(rows) |-> [rows[i] EXCEPT !.fellow = StripTitle(@)]]
NormalizeMethod(rows) ==
    [i \in 1..Len(rows) |-> [rows[i] EXCEPT !.method = TitleStrip(@)]]

\* The text processing of lines 108-122, all columns present.
TextProcessing(rows) ==
    NormalizeMethod(NormalizeFellow(NormalizeTopic(FillText(
        NormalizeName(rows)))))

\* self.data['Contact Date'] >= start: the date is coerced to the Timestamp
\* of its midnight.
InWindow(cell, start, end) ==
    /\ cell.v >= start * TicksPerDay
    /\ cell.v <= end * TicksPerDay
FilterDates(rows, start, end) ==
    SelectSeq(rows, LAMBDA r : InWindow(r.date, start, end))

clean_records ==
    /\ pc = "collected"
    /\ stages' = Append(stages, "clean_records")
    /\ IF ~HasCol(columns, ContactDate)
       THEN Raise("KeyError") /\ UNCHANGED <<data, log>>
       ELSE
       LET kept == DropStringDates(NotNullDates(data))
           named == NormalizeName(ConvertDates(kept))
       IN  /\ log' = log \o NullWarnings(data)
                        \o StringWarnings(NotNullDates(data))
           /\ IF ToDatetimeRaises(kept)
              THEN Raise("ValueError") /\ data' = kept
              ELSE IF ~HasCol(columns, Topic) \/ ~HasCol(columns, Actions)
              THEN Raise("KeyError") /\ data' = named
              ELSE IF ~HasCol(columns, AssignedFellow)
              THEN Raise("KeyError")
                   /\ data' = NormalizeTopic(FillText(named))
              ELSE IF ~HasCol(columns, CorrMethod)
              THEN Raise("KeyError")
                   /\ data' = NormalizeFellow(NormalizeTopic(FillText(named)))
              ELSE /\ data' = FilterDates(TextProcessing(ConvertDates(kept)),
                                          start_date, end_date)
                   /\ pc' = "cleaned"
                   /\ UNCHANGED <<exc, exitStatus>>
    /\ UNCHANGED <<nFiles, workbook, start_date, end_date, columns, outFile>>

(***************************************************************************)
(* Report.format_report                                                    *)
(***************************************************************************)
\* drop_cols = [x for x in self.data.columns if '.1' in x]
DropDuplicateColumns(cols) == SelectSeq(cols, LAMBDA c : ~Contains(c, Dot1))

RenameColumn(c) ==
    IF c = AssignedFellow THEN WritingFellow
    ELSE IF c = CorrMethod THEN TypeOfContact
    ELSE IF c = CourseLong THEN Course
    ELSE IF c = StudentName THEN Student
    ELSE IF c = ContactInfo THEN StudentContactInfo
    ELSE IF c = ProfessorLong THEN Professor
    ELSE c
RenameColumns(cols) == [i \in 1..Len(cols) |-> RenameColumn(cols[i])]

\* self.data[[...]]: for each requested label, every column carrying it.
RECURSIVE SelectColumns(_, _)
SelectColumns(cols, wanted) ==
    IF wanted = <<>> THEN <<>>
    ELSE SelectSeq(cols, LAMBDA c : c = Head(wanted))
            \o SelectColumns(cols, Tail(wanted))
\* Variant: an absent label is skipped (as reindexing would).
SelectNeverRaises(cols, wanted) == FALSE
SelectRaises(cols, wanted) ==
    \E i \in 1..Len(wanted) : ~HasCol(cols, wanted[i])

\* .dt.date
StripTime(rows) ==
    [i \in 1..Len(rows) |->
        [rows[i] EXCEPT !.date = DateOnly(@.v \div TicksPerDay)]]

format_report ==
    /\ pc = "cleaned"
    /\ stages' = Append(stages, "format_report")
    /\ LET renamed == RenameColumns(DropDuplicateColumns(columns))
       IN  /\ data' = StripTime(data)
           /\ IF SelectRaises(renamed, ReportColumns)
              THEN Raise("KeyError") /\ columns' = renamed
              ELSE /\ columns' = SelectColumns(renamed, ReportColumns)
                   /\ pc' = "formatted"
                   /\ UNCHANGED <<exc, exitStatus>>
    /\ UNCHANGED <<nFiles, workbook, start_date, end_date, log, outFile>>

(***************************************************************************)
(* Report.save_report                                                      *)
(***************************************************************************)
RowIndex(rows) == [i \in 1..Len(rows) |-> rows[i].idx]

\* to_excel(..., index_label='ID'): the index is written as the first
\* column, under the label ID.
ToExcel(name, cols, rows) ==
    [name |-> name \o ExtXlsx, format |-> "xlsx",
     header |-> <<ID>> \o cols, ids |-> RowIndex(rows), keys |-> <<>>,
     rows |-> rows]
\* to_json(..., date_format='iso'): orient 'columns', the index values are
\* the keys of each column's object; there is no index label.
ToJson(name, cols, rows) ==
    [name |-> name \o ExtJson, format |-> "json",
     header |-> cols, ids |-> <<>>, keys |-> RowIndex(rows),
     rows |-> rows]

ReportName(end) == ReportStem \o FormatISO(end)

save_report(report_type) ==
    /\ pc = "formatted"
    /\ stages' = Append(stages, "save_report")
    /\ outFile' = Append(outFile,
          IF report_type = "json"
          THEN ToJson(ReportName(end_date), columns, data)
          ELSE ToExcel(ReportName(end_date), columns, data))
    /\ pc' = "saved"
    /\ exitStatus' = 0
    /\ UNCHANGED <<nFiles, workbook, start_date, end_date, columns, data,
                   log, exc>>

(***************************************************************************)
(* Inputs.                                                                 *)
(***************************************************************************)
SeqsUpTo(S, n) == UNION {[1..k -> S] : k \in 0..n}
Without(cols, c) == SelectSeq(cols, LAMBDA x : x # c)

\* --start_date / --end_date: the defaults of the command line, and a
\* shorter window.
DefaultStart == <<"2","0","1","7","-","0","1","-","0","1">>
DefaultEnd == <<"2","0","1","7","-","0","3","-","0","1">>
Feb01Iso == <<"2","0","1","7","-","0","2","-","0","1">>
Feb15Iso == <<"2","0","1","7","-","0","2","-","1","5">>
Feb15Text == <<"F","e","b"," ","1","5"," ","2","0","1","7">>
Tbd == <<"t","b","d">>
EmailSent == <<"E","m","a","i","l"," ","s","e","n","t">>
Args == {[start_date |-> DefaultStart, end_date |-> DefaultEnd],
         [start_date |-> Feb01Iso, end_date |-> Feb15Iso]}

DoeJane == <<"D","o","e",","," ","J","a","n","e">>
RoeSam == <<" ","r","o","e",","," ","s","a","m">>
Summary == <<"S","u","m","m","a","r","y">>
Notes == <<"N","o","t","e","s">>
Major1 == <<"M","a","j","o","r",".","1">>
ContactDate1 == <<"C","o","n","t","a","c","t"," ","D","a","t","e",".","1">>

\* Contact Date cells around the window [s, e]: null, datetimes on and one
\* day outside either bound, a datetime late on the last day, textual dates
\* and text that is no date.
DateCells(s, e) ==
    {NullCell, DateTime(s - 1, 0), DateTime(s, 0), DateTime(e, 0),
     DateTime(e, TicksPerDay - 1), DateTime(e + 1, 0),
     DateTime(ParseISO(Feb01Iso), 0),
     Text(Feb15Text), Text(Feb15Iso), Text(Tbd), Text(EmailSent)}

\* The other cells of a row, as filled in on the two student worksheets.
DoeRow(cell) ==
    [date |-> cell, fellow |-> <<" ","l","e","e">>,
     method |-> <<"e","m","a","i","l"," ">>, topic |-> NaN, actions |-> NaN]
RoeRow(cell) ==
    [date |-> cell, fellow |-> NaN,
     method |-> <<"i","n"," ","p","e","r","s","o","n">>,
     topic |-> <<"x"," ">> \o SameAsAbove, actions |-> <<"c","a","l","l">>]
DoeRows(cells) == [i \in 1..Len(cells) |-> DoeRow(cells[i])]

Sheet(name, header, rows) == [name |-> name, header |-> header, rows |-> rows]

\* A workbook holding the cells: either the one student worksheet
\* 'Doe, Jane', or 'Doe, Jane', a worksheet 'Summary' that is no student's,
\* and ' roe, sam' holding the last cell when there are two or more.
WorkbookOf(cells, header, shape) ==
    IF shape = "one" THEN <<Sheet(DoeJane, header, DoeRows(cells))>>
    ELSE IF cells = <<>>
    THEN <<Sheet(Summary, header, <<DoeRow(NullCell)>>)>>
    ELSE IF Len(cells) = 1
    THEN <<Sheet(DoeJane, header, DoeRows(cells)),
           Sheet(Summary, header, <<DoeRow(NullCell)>>)>>
    ELSE <<Sheet(DoeJane, header, DoeRows(SubSeq(cells, 1, Len(cells) - 1))),
           Sheet(Summary, header, <<DoeRow(NullCell)>>),
           Sheet(RoeSam, header, <<RoeRow(cells[Len(cells)])>>)>>

\* Headers: complete, or with one required column absent (on workbooks one
\* row shorter).
HeaderPool ==
    {StandardHeader, Without(StandardHeader, Major),
     Without(StandardHeader, CorrMethod)}
RowsFor(header) == IF header = StandardHeader THEN MaxRows ELSE MaxRows - 1

Fresh ==
    /\ columns = <<>>
    /\ data = <<>>
    /\ log = <<>>
    /\ exitStatus = -1
    /\ exc = ""
    /\ outFile = <<>>

Init ==
    /\ Fresh
    /\ pc = "start"
    /\ stages = <<>>
    /\ nFiles \in 0..MaxFiles
    /\ \E a \in Args :
        /\ start_date = Strptime(a.start_date)
        /\ end_date = Strptime(a.end_date)
        /\ IF nFiles = 1
           THEN \E header \in HeaderPool, shape \in {"one", "split"} :
                \E cells \in SeqsUpTo(DateCells(start_date, end_date),
                                      RowsFor(header)) :
                    workbook = WorkbookOf(cells, header, shape)
           ELSE /\ workbook = <<>>
                /\ a.start_date = DefaultStart

Next ==
    \/ setup
    \/ collect_data
    \/ clean_records
    \/ format_report
    \/ \E report_type \in {"excel", "json"} : save_report(report_type)

Spec == Init /\ [][Next]_vars

(***************************************************************************)
(* collect_data alone, on workbooks of up to MaxSheets worksheets, each    *)
(* holding the same number of rows; the rows of the whole workbook have    *)
(* distinct dates.                                                         *)
(***************************************************************************)
SheetNames == {DoeJane, RoeSam, Summary, Notes}
NameLists ==
    {names \in SeqsUpTo(SheetNames, MaxSheets) :
        \A i, j \in 1..Len(names) : names[i] = names[j] => i = j}
DistinctRows(sheetNo, k) ==
    [j \in 1..k |-> DoeRow(DateTime(sheetNo * (MaxRows + 1) + j, 0))]

InitCollect ==
    /\ Fresh
    /\ pc = "setup"
    /\ stages = <<"setup">>
    /\ nFiles = 1
    /\ start_date = Strptime(DefaultStart)
    /\ end_date = Strptime(DefaultEnd)
    /\ \E names \in NameLists, k \in 0..MaxRows :
        workbook = [i \in 1..Len(names) |->
                       Sheet(names[i], StandardHeader, DistinctRows(i, k))]

NextCollect == collect_data

SpecCollect == InitCollect /\ [][NextCollect]_vars

(***************************************************************************)
(* The text processing of clean_records alone, applied and applied again,  *)
(* on strings put together from up to MaxPieces pieces.                    *)
(***************************************************************************)
Pieces ==
    {<<" ">>, <<"a">>, <<"B">>, <<",">>, SameAsAbove,
     <<"s","a","m","e"," ","a","s"," ">>, <<"a","b","o","v","e">>}
RECURSIVE Strings(_)
Strings(n) ==
    IF n = 0 THEN {<<>>}
    ELSE Strings(n - 1)
            \cup {s \o p : s \in Strings(n - 1), p \in Pieces}

TextRow(v) ==
    [date |-> DateTime(ParseISO(Feb01Iso), 0),
     fellow |-> v, method |-> v, topic |-> v, actions |-> v]

text_processing ==
    /\ pc \in {"text0", "text1"}
    /\ data' = TextProcessing(data)
    /\ pc' = IF pc = "text0" THEN "text1" ELSE "text2"
    /\ UNCHANGED <<nFiles, workbook, start_date, end_date, columns, log,
                   stages, exitStatus, exc, outFile>>

InitText ==
    /\ pc = "text0"
    /\ stages = <<"setup", "collect_data">>
    /\ nFiles = 1
    /\ start_date = Strptime(DefaultStart)
    /\ end_date = Strptime(DefaultEnd)
    /\ log = <<>>
    /\ exitStatus = -1
    /\ exc = ""
    /\ outFile = <<>>
    /\ \E s \in Strings(MaxPieces), isnull \in BOOLEAN :
        /\ isnull => s = <<>>
        /\ workbook = <<Sheet(s, StandardHeader,
                              <<TextRow(IF isnull THEN NaN ELSE s)>>)>>
    /\ columns = TagColumns(workbook[1])
    /\ data = Reindex(TagRows(workbook[1]))

NextText == text_processing

SpecText == InitText /\ [][NextText]_vars

(***************************************************************************)
(* format_report and save_report on cleaned tables whose columns are the   *)
(* collected ones, with extra columns and with or without one of the       *)
(* columns that clean_records does not itself read.                        *)
(***************************************************************************)
ExtraColumns == <<Major1, ContactDate1, Notes, Student, Course>>
OptionalForClean == {CourseLong, ContactInfo, ProfessorLong, Major}
CollectedHeader == Append(StandardHeader, StudentName)
FormatColumns ==
    {Without(CollectedHeader, missing)
        \o SelectSeq(ExtraColumns, LAMBDA c : c \in extra) :
            missing \in OptionalForClean \cup {<<>>},
            extra \in SUBSET Range(ExtraColumns)}

Cleaned(sheet, start, end) ==
    FilterDates(TextProcessing(ConvertDates(DropStringDates(NotNullDates(
        Reindex(TagRows(sheet)))))), start, end)
CleanedTables ==
    {Cleaned(Sheet(DoeJane, StandardHeader, DoeRows(cells)),
             Strptime(DefaultStart), Strptime(DefaultEnd)) :
        cells \in {<<>>,
                   <<DateTime(ParseISO(Feb01Iso), 0)>>,
                   <<NullCell, DateTime(ParseISO(Feb01Iso), 1),
                     Text(Feb15Iso)>>}}

InitFormat ==
    /\ pc = "cleaned"
    /\ stages = <<"setup", "collect_data", "clean_records">>
    /\ nFiles = 1
    /\ start_date = Strptime(DefaultStart)
    /\ end_date = Strptime(DefaultEnd)
    /\ log = <<>>
    /\ exitStatus = -1
    /\ exc = ""
    /\ outFile = <<>>
    /\ workbook = <<>>
    /\ columns \in FormatColumns
    /\ data \in CleanedTables

NextFormat ==
    \/ format_report
    \/ \E report_type \in {"excel", "json"} : save_report(report_type)

SpecFormat == InitFormat /\ [][NextFormat]_vars

(***************************************************************************)
(* Properties.                                                             *)
(***************************************************************************)
\* The table collect_data builds from the workbook.
Collected == CollectRows(StudentSheets(workbook), <<>>)
Ran(stage) == \E i \in DOMAIN stages : stages[i] = stage
Reported(idx) == \E i \in DOMAIN data : data[i].idx = idx
Count(seq, x) == Cardinality({i \in DOMAIN seq : seq[i] = x})

\* The calendar day a record is dated, when its cell holds a date.
IsDated(cell) ==
    cell.kind = "datetime" \/ (cell.kind = "str" /\ IsParseable(cell.text))
DayOf(cell) ==
    IF cell.kind = "datetime" THEN cell.v \div TicksPerDay
    ELSE ParseDate(cell.text)
NonDateText(cell) == cell.kind = "str" /\ ~IsParseable(cell.text)
CompleteHeader ==
    workbook # <<>> /\ \A i \in DOMAIN workbook :
        \A j \in DOMAIN StandardHeader :
            HasCol(workbook[i].header, StandardHeader[j])

\* C1 (as claimed): after clean_records and format_report every remaining
\* row is dated within [start_date, end_date]; a record dated exactly
\* start_date or exactly end_date is kept, and a record dated one day
\* before start_date or one day after end_date is removed.
C1_WindowInclusive ==
    pc = "formatted" =>
        LET c == Collected
        IN  /\ \A i \in DOMAIN data :
                data[i].date.v >= start_date /\ data[i].date.v <= end_date
            /\ \A i \in DOMAIN c :
                IsDated(c[i].date) =>
                    /\ DayOf(c[i].date) \in {start_date, end_date}
                           => Reported(c[i].idx)
                    /\ DayOf(c[i].date) \in {start_date - 1, end_date + 1}
                           => ~Reported(c[i].idx)

EmptyDateWarning(r) == Warning("Empty contact date in record", r.idx, r.name)

\* C2: no record whose Contact Date is null is in the table after
\* clean_records, after format_report or in a written report, and once
\* clean_records has run the log holds, for each null-date record of the
\* collected table, exactly one 'Empty contact date' warning naming its row
\* index and student tag, and no other such warning.
C2_NullDatesDroppedAndLogged ==
    /\ pc \in {"cleaned", "formatted", "saved"} =>
            \A i \in DOMAIN data : data[i].date.kind # "null"
    /\ \A f \in DOMAIN outFile : \A i \in DOMAIN outFile[f].rows :
            outFile[f].rows[i].date.kind # "null"
    /\ LET c == Collected
           nulls == {i \in DOMAIN c : c[i].date.kind = "null"}
           logged == {j \in DOMAIN log :
                         log[j].msg = "Empty contact date in record"}
       IN  IF Ran("clean_records")
           THEN /\ \A i \in nulls : Count(log, EmptyDateWarning(c[i])) = 1
                /\ Cardinality(logged) = Cardinality(nulls)
           ELSE logged = {}
\* A cleaned, non-empty table whose collected table had a null-date record
\* below its first row.
C2_Witness ==
    /\ pc = "cleaned"
    /\ data # <<>>
    /\ LET c == Collected
       IN  \E i \in DOMAIN c : c[i].date.kind = "null" /\ c[i].idx > 0

\* C3 (as claimed): in a batch that mixes records whose date field holds
\* non-date text with records whose date field is valid, clean_records
\* removes each non-date-text record, logs a warning for it and raises no
\* fault, keeping every valid in-window record.
C3_NonDateTextRecovered ==
    LET c == Collected
    IN  ( /\ Ran("clean_records")
          /\ CompleteHeader
          /\ \E i \in DOMAIN c : NonDateText(c[i].date)
          /\ \E i \in DOMAIN c : c[i].date.kind = "datetime" )
        =>
        /\ pc # "fault"
        /\ \A i \in DOMAIN c :
            NonDateText(c[i].date) =>
                /\ ~Reported(c[i].idx)
                /\ Count(log, Warning("Invalid information in record",
                                      c[i].idx, c[i].name)) = 1
        /\ pc = "cleaned" =>
            \A i \in DOMAIN c :
                ( /\ c[i].date.kind = "datetime"
                  /\ InWindow(c[i].date, start_date, end_date) )
                => Reported(c[i].idx)

C4_Scenario ==
    /\ workbook = <<Sheet(DoeJane, StandardHeader,
                          DoeRows(<<DateTime(Ordinal(2017, 2, 1), 0),
                                    Text(Feb15Text), NullCell>>))>>
    /\ start_date = Ordinal(2017, 1, 1)
    /\ end_date = Ordinal(2017, 3, 1)

\* C4 (as claimed): for the one worksheet 'Doe, Jane' with rows dated
\* 2017-02-01, 'Feb 15 2017' and null, start 2017-01-01 and end 2017-03-01,
\* the textual date is parsed to 2017-02-15 and retained: the cleaned table
\* has exactly 2 rows, both tagged 'Doe, Jane'.
C4_TextDateRetained ==
    (C4_Scenario /\ pc = "cleaned") =>
        /\ Len(data) = 2
        /\ \A i \in DOMAIN data : data[i].name = DoeJane
        /\ \E i \in DOMAIN data :
            data[i].date = DateTime(Ordinal(2017, 2, 15), 0)

HasComma(name) == \E j \in DOMAIN name : name[j] = ","
CommaSheets == {i \in DOMAIN workbook : HasComma(workbook[i].name)}
RowsPerSheet == IF workbook = <<>> THEN 0 ELSE Len(workbook[1].rows)

\* C5 (SpecCollect): for a workbook with N worksheets whose names contain a
\* comma, each holding k rows, and any worksheets without a comma,
\* collect_data on a fresh InteractionData yields exactly N*k rows, indexed
\* 0..N*k-1; each row of a comma worksheet is there once, carrying the name
\* of its worksheet in 'Student Name', and no row carries the name of a
\* worksheet without a comma.
C5_CollectCounts ==
    pc = "collected" =>
        /\ Len(data) = Cardinality(CommaSheets) * RowsPerSheet
        /\ \A i \in DOMAIN data : data[i].idx = i - 1
        /\ \A i \in DOMAIN data : HasComma(data[i].name)
        /\ \A i \in CommaSheets : \A j \in DOMAIN workbook[i].rows :
            Cardinality({r \in DOMAIN data :
                /\ data[r].name = workbook[i].name
                /\ data[r].date = workbook[i].rows[j].date}) = 1
        /\ CommaSheets # {} => HasCol(columns, StudentName)
\* Two student worksheets of two or more rows each, and a worksheet that is
\* no student's, collected.
C5_Witness ==
    /\ pc = "collected"
    /\ Cardinality(CommaSheets) >= 2
    /\ RowsPerSheet >= 2
    /\ \E i \in DOMAIN workbook : ~HasComma(workbook[i].name)
    /\ Len(data) = 2 * RowsPerSheet

\* C6 (SpecText, as claimed): the text normalization of clean_records is
\* idempotent on every text field: applied a second time to the normalized
\* Student Name, Assigned to Writing Fellow, Correspondence Method and
\* Content/Topic of the Exchange it returns the same values, for every
\* input string.
C6_Idempotent ==
    [][pc = "text1" =>
        /\ data'[1].name = data[1].name
        /\ data'[1].fellow = data[1].fellow
        /\ data'[1].method = data[1].method
        /\ data'[1].topic = data[1].topic]_vars

ContainsPlaceholder(v) ==
    \E i \in 1..Len(v) :
        /\ i + Len(SameAsAbove) - 1 <= Len(v)
        /\ \A j \in 1..Len(SameAsAbove) : v[i + j - 1] = SameAsAbove[j]

\* C6 (amended): the second application returns the same Student Name,
\* Assigned to Writing Fellow, Correspondence Method and Actions and/or
\* Follow up for every input string, and the same Content/Topic of the
\* Exchange for every input string that does not contain 'same as above'.
C6_IdempotentWithoutPlaceholder ==
    [][pc = "text1" =>
        /\ data'[1].name = data[1].name
        /\ data'[1].fellow = data[1].fellow
        /\ data'[1].method = data[1].method
        /\ data'[1].actions = data[1].actions
        /\ ~ContainsPlaceholder(workbook[1].rows[1].topic)
            => data'[1].topic = data[1].topic]_vars
\* Twice normalized, the first application having changed every field of
\* an input without the placeholder.
C6_Witness ==
    /\ pc = "text2"
    /\ ~ContainsPlaceholder(workbook[1].rows[1].topic)
    /\ data[1].name # workbook[1].name
    /\ data[1].fellow # workbook[1].rows[1].fellow
    /\ data[1].method # workbook[1].rows[1].method
    /\ data[1].topic # workbook[1].rows[1].topic
    /\ Len(data[1].topic) > 1

AllRequired(cols) ==
    \A j \in DOMAIN CollectedHeader : HasCol(cols, CollectedHeader[j])

\* C7 (SpecFormat, as claimed): for every cleaned table containing all
\* required source columns, whatever extra or '.1'-suffixed columns it also
\* contains, the table after format_report has exactly the ten report
\* columns, in order, with the same rows.
C7_ExactlyTenColumns ==
    [][(pc = "cleaned" /\ AllRequired(columns)) =>
        /\ pc' = "formatted"
        /\ columns' = ReportColumns
        /\ RowIndex(data') = RowIndex(data)]_vars

\* C8 (as claimed): setup returns the workbook path only when exactly one
\* matching file is in the data directory; with zero or more than one it
\* logs a critical message and terminates the process with a non-zero exit
\* status, and no collect, clean, format or write step runs.
C8_SetupFatalNonZero ==
    pc # "start" =>
        IF nFiles = 1 THEN pc # "exited"
        ELSE /\ pc = "exited"
             /\ stages = <<"setup">>
             /\ Len(log) = 1 /\ log[1].level = "CRITICAL"
             /\ exitStatus # 0

StrictlyIncreasing(seq) == \A i, j \in DOMAIN seq : i < j => seq[i] < seq[j]
Consecutive(seq) == \A i \in 1..(Len(seq) - 1) : seq[i + 1] = seq[i] + 1
NamedByEndDate(f) ==
    /\ Len(f.name) = Len(ReportStem) + 10 + 5
    /\ SubSeq(f.name, 1, Len(ReportStem)) = ReportStem
    /\ IsISO(SubSeq(f.name, Len(ReportStem) + 1, Len(ReportStem) + 10))
    /\ ParseISO(SubSeq(f.name, Len(ReportStem) + 1, Len(ReportStem) + 10))
           = end_date
    /\ SubSeq(f.name, Len(ReportStem) + 11, Len(f.name))
           = (IF f.format = "json" THEN ExtJson ELSE ExtXlsx)

\* C9 (as claimed): save_report writes wac_monthly_report-<end_date>.<ext>
\* and, in both output formats, adds a column 'ID' whose values are
\* consecutive over the reported rows, even when clean_records removed rows
\* from the middle of the collected table.
C9_SequentialID ==
    \A n \in DOMAIN outFile :
        /\ NamedByEndDate(outFile[n])
        /\ HasCol(outFile[n].header, ID)
        /\ Len(outFile[n].ids) = Len(outFile[n].rows)
        /\ Consecutive(outFile[n].ids)

FromCollected(ids, rows) ==
    LET c == Collected
    IN  /\ Len(ids) = Len(rows)
        /\ StrictlyIncreasing(ids)
        /\ \A i \in DOMAIN ids :
            /\ ids[i] + 1 \in DOMAIN c
            /\ IsDated(c[ids[i] + 1].date)
            /\ DayOf(c[ids[i] + 1].date) = rows[i].date.v

\* C9 (amended): save_report writes wac_monthly_report-<end_date>.<ext>.
\* In the xlsx format the first column is 'ID' and holds, for each reported
\* row, the index that row had in the collected table: strictly increasing,
\* with a gap wherever clean_records removed a row.  The json output has no
\* 'ID' column; the same index values are the keys of its records.
C9_IndexAsID ==
    \A n \in DOMAIN outFile :
        /\ NamedByEndDate(outFile[n])
        /\ IF outFile[n].format = "xlsx"
           THEN /\ Head(outFile[n].header) = ID
                /\ Len(outFile[n].header) = Len(columns) + 1
                /\ FromCollected(outFile[n].ids, outFile[n].rows)
           ELSE /\ ~HasCol(outFile[n].header, ID)
                /\ outFile[n].ids = <<>>
                /\ FromCollected(outFile[n].keys, outFile[n].rows)
\* A spreadsheet written after clean_records removed a row from the middle.
C9_Witness ==
    \E n \in DOMAIN outFile :
        /\ outFile[n].format = "xlsx"
        /\ Len(outFile[n].ids) >= 2
        /\ ~Consecutive(outFile[n].ids)

StageOrder ==
    <<"setup", "collect_data", "clean_records", "format_report",
      "save_report">>
UnparseableAfterFilter ==
    LET c == Collected
    IN  \E i \in DOMAIN c :
            /\ NonDateText(c[i].date)
            /\ ~( /\ IsUpper(c[i].date.text[1])
                  /\ IsLower(c[i].date.text[2]) )

\* C10: in every run of main the stages are entered in the order setup,
\* collect_data, clean_records, format_report, save_report, each at most
\* once; the report file is written at most once and only after all five;
\* a run that ended in sys.exit or an exception has written no report, and
\* no report is written when the data directory does not hold exactly one
\* file (no stage after setup runs), when a date string that passes the
\* text filter cannot be parsed, or when a required column is absent.
C10_StagesInOrder ==
    /\ Len(stages) <= Len(StageOrder)
    /\ stages = SubSeq(StageOrder, 1, Len(stages))
    /\ Len(outFile) <= 1
    /\ outFile # <<>> => (pc = "saved" /\ stages = StageOrder)
    /\ pc \in {"exited", "fault"} => outFile = <<>>
    /\ nFiles # 1 => Len(stages) <= 1
    /\ (nFiles # 1 \/ UnparseableAfterFilter \/ ~CompleteHeader)
            => (outFile = <<>> /\ pc # "saved")
\* A run that went through all five stages, logged warnings and wrote a
\* non-empty report.
C10_Witness ==
    /\ pc = "saved"
    /\ Len(outFile) = 1
    /\ outFile[1].rows # <<>>
    /\ log # <<>>

====
